---- MODULE Spec2Model ----
(***************************************************************************)
(* Model of src/binary_heap.py: class BinaryHeap, a binary heap kept in a  *)
(* Python list with the implicit-array encoding (children of i at 2i+1 and *)
(* 2i+2), configurable as max-heap or min-heap, with a runtime type tag.   *)
(*                                                                         *)
(* Python lists are 0-indexed; the heap is a TLA+ sequence and At(h, i)    *)
(* reads Python index i.  A value is a record [k |-> kind, v |-> rank]:    *)
(* k is the Python type of the value and v its rank in the order of that   *)
(* type.  Values of kind "list" stand for a type outside COMPARABLE_TYPES  *)
(* whose values compare with each other but not with a number or a str.    *)
(* The value None as a heap element, bool and float are not drawn.         *)
(*                                                                         *)
(* Every public method is a pure operator from the object's fields and the *)
(* arguments to a record [heap, type, ret, exc]: the fields when the call  *)
(* ends, the value returned and the exception that escaped ("none" when    *)
(* the call returned).  One action per method applies it.                  *)
(***************************************************************************)
EXTENDS Integers, Sequences, FiniteSets, TLC

VARIABLES heap,      \* self.heap
          max_heap,  \* self.max_heap
          type,      \* self.type: "None" or a type name
          op,        \* the method called last ("init" after construction)
          arg,       \* its arguments, as a sequence
          ret,       \* the value it returned (NoneV when it raised)
          exc,       \* the exception that escaped it, or "none"
          old,       \* self.heap when that call began
          k,         \* calls of add that returned normally (tallied on request)
          j,         \* calls of poll/remove that returned an element
          pc,        \* position in _heapify_up / _heapify_down run step by step
          cur        \* the local variable i of that run

vars == <<heap, max_heap, type, op, arg, ret, exc, old, k, j, pc, cur>>

----------------------------------------------------------------------------
(* Bounds *)

MaxLen   == 6   \* longest heap an add may grow, numeric specification
MaxVal   == 3   \* int values are 1..MaxVal
MaxLenT  == 2   \* longest heap an add may grow, typed specification
MaxValT  == 2   \* int values of the typed specification are 1..MaxValT
MaxOther == 1   \* str values are 1..MaxOther
MaxBatch == 2   \* longest list handed to build_heap
MaxAdds  == 4   \* successful adds tallied in the size specification
MaxLenS  == 4   \* longest heap of the accessor and bulk-build specifications

----------------------------------------------------------------------------
(* Values and types *)

COMPARABLE_TYPES == {"int", "float", "complex", "str"}

NoneV  == [k |-> "NoneType", v |-> 0]
TrueV  == [k |-> "bool", v |-> 1]
FalseV == [k |-> "bool", v |-> 0]

IntValues   == [k : {"int"}, v : 1..MaxVal]
TypedValues == [k : {"int"}, v : 1..MaxValT]
                 \cup [k : {"str"}, v : 1..MaxOther]
                 \cup [k : {"complex", "list"}, v : {1}]

typeof(x) == x.k

\* Python's x < y, x > y, x >= y, x <= y: "T", "F", or "E" when the
\* comparison raises TypeError (different types, or complex).
Ordered(x, y) == x.k = y.k /\ x.k # "complex"
lt(x, y) == IF ~Ordered(x, y) THEN "E" ELSE IF x.v < y.v THEN "T" ELSE "F"
gt(x, y) == IF ~Ordered(x, y) THEN "E" ELSE IF x.v > y.v THEN "T" ELSE "F"
ge(x, y) == IF ~Ordered(x, y) THEN "E" ELSE IF x.v >= y.v THEN "T" ELSE "F"
le(x, y) == IF ~Ordered(x, y) THEN "E" ELSE IF x.v <= y.v THEN "T" ELSE "F"

----------------------------------------------------------------------------
(* Python list primitives *)

At(h, i) == h[i + 1]

size(h) == Len(h)

is_empty(h) == size(h) = 0

contains(h, elem) == \E i \in 0..(Len(h) - 1) : At(h, i) = elem

\* list.index: the first position holding a value equal to elem
index(h, elem) == CHOOSE i \in 0..(Len(h) - 1) :
                     /\ At(h, i) = elem
                     /\ \A m \in 0..(i - 1) : At(h, m) # elem

\* list.pop(): the list without its last slot
pop(h) == SubSeq(h, 1, Len(h) - 1)

\* mutant: the swap writes heap[b] over heap[a] and loses the temp
swap_overwrite(h, a, b) == [h EXCEPT ![a + 1] = At(h, b)]

\* the three-line swap through temp
swap(h, a, b) == [h EXCEPT ![a + 1] = At(h, b), ![b + 1] = At(h, a)]

Res(h, t, r, e) == [heap |-> h, type |-> t, ret |-> r, exc |-> e]

----------------------------------------------------------------------------
(* Private helpers of BinaryHeap *)

\* mutant: a heap with a fixed type accepts every supported type
is_valid_type_anyfixed(t, elem) ==
    ~ \/ (t = "None" /\ typeof(elem) \notin COMPARABLE_TYPES)
      \/ (t # "None" /\ typeof(elem) \notin COMPARABLE_TYPES)

is_valid_type(t, elem) ==
    ~ \/ (t = "None" /\ typeof(elem) \notin COMPARABLE_TYPES)
      \/ (t # "None" /\ t # typeof(elem))

\* "True", "False", or the exception raised
check_child_invariance(h, mx, i) ==
    IF i >= size(h) THEN "IndexError"
    ELSE LET hasL == (i * 2) + 1 < size(h)
             hasR == (i * 2) + 2 < size(h)
             cl == IF ~hasL THEN "F"
                   ELSE IF mx THEN lt(At(h, i), At(h, (i * 2) + 1))
                              ELSE gt(At(h, i), At(h, (i * 2) + 1))
             cr == IF ~hasR THEN "F"
                   ELSE IF mx THEN lt(At(h, i), At(h, (i * 2) + 2))
                              ELSE gt(At(h, i), At(h, (i * 2) + 2))
         IN  IF cl = "E" THEN "TypeError"
             ELSE IF cl = "T" THEN "False"
             ELSE IF cr = "E" THEN "TypeError"
             ELSE IF cr = "T" THEN "False"
             ELSE "True"

\* mutant: the walk up stops after its first swap
up_loop_once(h, mx, i) ==
    LET parent_i == (i - 1) \div 2 IN
    IF parent_i < 0 THEN [heap |-> h, exc |-> "none"]
    ELSE LET c == check_child_invariance(h, mx, parent_i) IN
         IF c \in {"TypeError", "IndexError"} THEN [heap |-> h, exc |-> c]
         ELSE IF c = "True" THEN [heap |-> h, exc |-> "none"]
         ELSE [heap |-> swap(h, parent_i, i), exc |-> "none"]

\* the while loop of _heapify_up
RECURSIVE up_loop(_, _, _)
up_loop(h, mx, i) ==
    LET parent_i == (i - 1) \div 2 IN
    IF parent_i < 0 THEN [heap |-> h, exc |-> "none"]
    ELSE LET c == check_child_invariance(h, mx, parent_i) IN
         IF c \in {"TypeError", "IndexError"} THEN [heap |-> h, exc |-> c]
         ELSE IF c = "True" THEN [heap |-> h, exc |-> "none"]
         ELSE up_loop(swap(h, parent_i, i), mx, parent_i)

heapify_up(h, mx, i) ==
    IF i < 0 \/ i >= size(h) THEN [heap |-> h, exc |-> "IndexError"]
    ELSE up_loop(h, mx, i)

\* mutant: the walk down always swaps with the left child
RECURSIVE down_loop_left(_, _, _)
down_loop_left(h, mx, i) ==
    LET c == check_child_invariance(h, mx, i) IN
    IF c \in {"TypeError", "IndexError"} THEN [heap |-> h, exc |-> c]
    ELSE IF c = "True" THEN [heap |-> h, exc |-> "none"]
    ELSE LET left_i  == (i * 2) + 1
             right_i == (i * 2) + 2
         IN  IF left_i >= size(h) \/ right_i >= size(h)
             THEN [heap |-> h, exc |-> "IndexError"]
             ELSE IF ge(At(h, left_i), At(h, right_i)) = "E"
                  THEN [heap |-> h, exc |-> "TypeError"]
                  ELSE down_loop_left(swap(h, left_i, i), mx, left_i)

\* the while loop of _heapify_down
RECURSIVE down_loop(_, _, _)
down_loop(h, mx, i) ==
    LET c == check_child_invariance(h, mx, i) IN
    IF c \in {"TypeError", "IndexError"} THEN [heap |-> h, exc |-> c]
    ELSE IF c = "True" THEN [heap |-> h, exc |-> "none"]
    ELSE LET left_i  == (i * 2) + 1
             right_i == (i * 2) + 2
         IN  \* heap[left_i] is read first, then heap[right_i]
             IF left_i >= size(h) \/ right_i >= size(h)
             THEN [heap |-> h, exc |-> "IndexError"]
             ELSE LET cmp == IF mx THEN ge(At(h, left_i), At(h, right_i))
                                   ELSE le(At(h, left_i), At(h, right_i))
                  IN  IF cmp = "E" THEN [heap |-> h, exc |-> "TypeError"]
                      ELSE IF cmp = "T"
                           THEN down_loop(swap(h, left_i, i), mx, left_i)
                           ELSE down_loop(swap(h, right_i, i), mx, right_i)

heapify_down(h, mx, i) ==
    IF i < 0 \/ i >= size(h) THEN [heap |-> h, exc |-> "IndexError"]
    ELSE down_loop(h, mx, i)

----------------------------------------------------------------------------
(* Public mutating methods *)

\* mutant: the type tag is taken from the element before it is validated
add_tags_first(h, t, mx, elem) ==
    LET t1 == IF t = "None" THEN typeof(elem) ELSE t IN
    IF ~is_valid_type(t, elem) THEN Res(h, t1, NoneV, "TypeError")
    ELSE LET h1 == Append(h, elem)
         IN  IF size(h1) > 1
             THEN LET u == heapify_up(h1, mx, size(h1) - 1)
                  IN  Res(u.heap, t1, NoneV, u.exc)
             ELSE Res(h1, t1, NoneV, "none")

add(h, t, mx, elem) ==
    IF ~is_valid_type(t, elem) THEN Res(h, t, NoneV, "TypeError")
    ELSE LET t1 == IF t = "None" THEN typeof(elem) ELSE t
             h1 == Append(h, elem)
         IN  IF size(h1) > 1
             THEN LET u == heapify_up(h1, mx, size(h1) - 1)
                  IN  Res(u.heap, t1, NoneV, u.exc)
             ELSE Res(h1, t1, NoneV, "none")

\* self.heap[i] = self.heap.pop(): the pop happens first, then the store,
\* which raises IndexError when i is no longer a position of the list
pop_into(h, i) ==
    LET last == At(h, size(h) - 1)
        h1   == pop(h)
    IN  IF i >= size(h1) THEN [heap |-> h1, exc |-> "IndexError"]
        ELSE [heap |-> [h1 EXCEPT ![i + 1] = last], exc |-> "none"]

remove(h, t, mx, elem) ==
    IF ~contains(h, elem) THEN Res(h, t, NoneV, "none")
    ELSE LET i == index(h, elem)
             p == pop_into(h, i)
         IN  IF p.exc # "none" THEN Res(p.heap, t, NoneV, p.exc)
             ELSE LET d == heapify_down(p.heap, mx, i)
                  IN  IF d.exc # "none" THEN Res(d.heap, t, NoneV, d.exc)
                      ELSE Res(d.heap, t, elem, "none")

\* mutant: no guard for the empty heap, self.heap[0] raises
poll_unguarded(h, t, mx) ==
    IF size(h) = 0 THEN Res(h, t, NoneV, "IndexError")
    ELSE LET root == At(h, 0)
             p == pop_into(h, 0)
         IN  IF p.exc # "none" THEN Res(p.heap, t, NoneV, p.exc)
             ELSE LET d == heapify_down(p.heap, mx, 0)
                  IN  IF d.exc # "none" THEN Res(d.heap, t, NoneV, d.exc)
                      ELSE Res(d.heap, t, root, "none")

poll(h, t, mx) ==
    IF size(h) = 0 THEN Res(h, t, NoneV, "none")
    ELSE LET root == At(h, 0)
             p == pop_into(h, 0)
         IN  IF p.exc # "none" THEN Res(p.heap, t, NoneV, p.exc)
             ELSE LET d == heapify_down(p.heap, mx, 0)
                  IN  IF d.exc # "none" THEN Res(d.heap, t, NoneV, d.exc)
                      ELSE Res(d.heap, t, root, "none")

replace(h, t, mx, new_root) ==
    IF is_empty(h) THEN Res(h, t, NoneV, "none")
    ELSE LET to_return == At(h, 0)
             d == heapify_down([h EXCEPT ![1] = new_root], mx, 0)
         IN  IF d.exc # "none" THEN Res(d.heap, t, NoneV, d.exc)
             ELSE Res(d.heap, t, to_return, "none")

update(h, t, mx, old_elem, new_elem) ==
    IF ~contains(h, old_elem) THEN Res(h, t, FalseV, "none")
    ELSE LET i  == index(h, old_elem)
             h1 == [h EXCEPT ![i + 1] = new_elem]
         IN  IF gt(new_elem, old_elem) = "E" THEN Res(h1, t, NoneV, "TypeError")
             ELSE LET s == IF \/ (gt(new_elem, old_elem) = "T" /\ mx)
                              \/ (lt(new_elem, old_elem) = "T" /\ ~mx)
                           THEN heapify_up(h1, mx, i)
                           ELSE heapify_down(h1, mx, i)
                  IN  IF s.exc # "none" THEN Res(s.heap, t, NoneV, s.exc)
                      ELSE Res(s.heap, t, TrueV, "none")

\* mutant: clear also forgets the type of the elements
clear_resets_type(h, t) == Res(<<>>, "None", NoneV, "none")

clear(h, t) == Res(<<>>, t, NoneV, "none")

\* the second loop of build_heap: add each element, an exception ends it
RECURSIVE add_all(_, _, _, _)
add_all(h, t, mx, elements) ==
    IF elements = <<>> THEN Res(h, t, NoneV, "none")
    ELSE LET a == add(h, t, mx, Head(elements))
         IN  IF a.exc # "none" THEN a
             ELSE add_all(a.heap, a.type, mx, Tail(elements))

\* the first loop of build_heap: "TypeError" at the first element that is
\* not valid for self.type or not of the type of the elements before it
RECURSIVE validate_loop(_, _, _)
validate_loop(t, elements, potential_type) ==
    IF elements = <<>> THEN "none"
    ELSE LET elem == Head(elements) IN
         IF ~is_valid_type(t, elem) THEN "TypeError"
         ELSE IF potential_type # "None" /\ typeof(elem) # potential_type
              THEN "TypeError"
         ELSE validate_loop(t, Tail(elements), typeof(elem))

\* mutant: one loop, each element validated right before it is added
RECURSIVE lazy_loop(_, _, _, _, _)
lazy_loop(h, t, mx, elements, potential_type) ==
    IF elements = <<>> THEN Res(h, t, NoneV, "none")
    ELSE LET elem == Head(elements) IN
         IF \/ ~is_valid_type(t, elem)
            \/ (potential_type # "None" /\ typeof(elem) # potential_type)
         THEN Res(h, t, NoneV, "TypeError")
         ELSE LET a == add(h, t, mx, elem)
              IN  IF a.exc # "none" THEN a
                  ELSE lazy_loop(a.heap, a.type, mx, Tail(elements), typeof(elem))

build_heap_lazy(h, t, mx, elements, is_list) ==
    IF ~is_list THEN Res(h, t, NoneV, "TypeError")
    ELSE lazy_loop(h, t, mx, elements, "None")

\* mutant: the heap is built from the list alone, the elements already in
\* the heap are dropped
build_heap_fresh(h, t, mx, elements, is_list) ==
    IF ~is_list THEN Res(h, t, NoneV, "TypeError")
    ELSE IF validate_loop(t, elements, "None") # "none"
         THEN Res(h, t, NoneV, "TypeError")
    ELSE add_all(<<>>, t, mx, elements)

build_heap(h, t, mx, elements, is_list) ==
    IF ~is_list THEN Res(h, t, NoneV, "TypeError")
    ELSE IF validate_loop(t, elements, "None") # "none"
         THEN Res(h, t, NoneV, "TypeError")
    ELSE add_all(h, t, mx, elements)

----------------------------------------------------------------------------
(* Public accessors *)

peek(h, t) ==
    IF 0 >= size(h) THEN Res(h, t, NoneV, "IndexError")
    ELSE Res(h, t, At(h, 0), "none")

parent(h, t, i) ==
    IF i = 0 THEN Res(h, t, NoneV, "none")
    ELSE IF i < 0 \/ i >= size(h) THEN Res(h, t, NoneV, "IndexError")
    ELSE Res(h, t, At(h, (i - 1) \div 2), "none")

left_child(h, t, i) ==
    IF i < 0 \/ i >= size(h) THEN Res(h, t, NoneV, "IndexError")
    ELSE IF (i * 2) + 1 < size(h) THEN Res(h, t, At(h, (i * 2) + 1), "none")
    ELSE Res(h, t, NoneV, "none")

right_child(h, t, i) ==
    IF i < 0 \/ i >= size(h) THEN Res(h, t, NoneV, "IndexError")
    ELSE IF (i * 2) + 2 < size(h) THEN Res(h, t, At(h, (i * 2) + 2), "none")
    ELSE Res(h, t, NoneV, "none")

\* a Python tuple (x, y)
TupleV(x, y) == [k |-> "tuple", v |-> <<x, y>>]

children(h, t, i) ==
    IF i < 0 \/ i >= size(h) THEN Res(h, t, NoneV, "IndexError")
    ELSE Res(h, t, TupleV(left_child(h, t, i).ret, right_child(h, t, i).ret),
             "none")

----------------------------------------------------------------------------
(* The object: construction and one action per method *)

Construct(types) ==
    /\ heap = <<>>
    /\ max_heap \in BOOLEAN
    /\ type \in types
    /\ op = "init"
    /\ arg = <<>>
    /\ ret = NoneV
    /\ exc = "none"
    /\ old = <<>>
    /\ k = 0
    /\ j = 0
    /\ pc = "idle"
    /\ cur = 0

Apply(name, args, r) ==
    /\ heap' = r.heap
    /\ type' = r.type
    /\ ret' = r.ret
    /\ exc' = r.exc
    /\ op' = name
    /\ arg' = args
    /\ old' = heap
    /\ UNCHANGED <<max_heap, pc, cur>>

Add(elem) == Apply("add", <<elem>>, add(heap, type, max_heap, elem))

Remove(elem) == Apply("remove", <<elem>>, remove(heap, type, max_heap, elem))

Poll == Apply("poll", <<>>, poll(heap, type, max_heap))

Replace(new_root) ==
    Apply("replace", <<new_root>>, replace(heap, type, max_heap, new_root))

Update(old_elem, new_elem) ==
    Apply("update", <<old_elem, new_elem>>,
          update(heap, type, max_heap, old_elem, new_elem))

Clear == Apply("clear", <<>>, clear(heap, type))

BuildHeap(elements, is_list) ==
    Apply(IF is_list THEN "build_heap" ELSE "build_heap_nonlist", elements,
          build_heap(heap, type, max_heap, elements, is_list))

Peek == Apply("peek", <<>>, peek(heap, type))

Parent(i) == Apply("parent", <<i>>, parent(heap, type, i))

LeftChild(i) == Apply("left_child", <<i>>, left_child(heap, type, i))

RightChild(i) == Apply("right_child", <<i>>, right_child(heap, type, i))

Children(i) == Apply("children", <<i>>, children(heap, type, i))

\* the tallies of the round-trip size property
NoTally == UNCHANGED <<k, j>>

Tally ==
    /\ k' = IF op' = "add" /\ exc' = "none" THEN k + 1 ELSE k
    /\ j' = IF op' \in {"poll", "remove"} /\ exc' = "none" /\ ret' # NoneV
            THEN j + 1 ELSE j

\* the lists handed to build_heap, over the values V
Batches(V) == UNION {[1..n -> V] : n \in 0..MaxBatch}

\* build_heap draws its elements among two ints, a str and a list
BatchValues == [k : {"int"}, v : {1, 2}] \cup [k : {"str", "list"}, v : {1}]

----------------------------------------------------------------------------
(* _heapify_up and _heapify_down one loop iteration at a time *)

\* mutant: the walk down swaps but goes on from the same index
down_step_same_index(h, mx, i) ==
    LET c == check_child_invariance(h, mx, i) IN
    IF c \in {"TypeError", "IndexError"}
    THEN [heap |-> h, i |-> i, exc |-> c, done |-> TRUE]
    ELSE IF c = "True" THEN [heap |-> h, i |-> i, exc |-> "none", done |-> TRUE]
    ELSE LET left_i  == (i * 2) + 1
             right_i == (i * 2) + 2
         IN  IF left_i >= size(h) \/ right_i >= size(h)
             THEN [heap |-> h, i |-> i, exc |-> "IndexError", done |-> TRUE]
             ELSE LET cmp == IF mx THEN ge(At(h, left_i), At(h, right_i))
                                   ELSE le(At(h, left_i), At(h, right_i))
                  IN  IF cmp = "E"
                      THEN [heap |-> h, i |-> i, exc |-> "TypeError",
                            done |-> TRUE]
                      ELSE IF cmp = "T"
                           THEN [heap |-> swap(h, left_i, i), i |-> i,
                                 exc |-> "none", done |-> FALSE]
                           ELSE [heap |-> swap(h, right_i, i), i |-> i,
                                 exc |-> "none", done |-> FALSE]

\* one test of the while condition of _heapify_up and, when it holds, one
\* run of the body: the list, the local i, the exception raised and whether
\* the loop is left
up_step(h, mx, i) ==
    LET parent_i == (i - 1) \div 2 IN
    IF parent_i < 0 THEN [heap |-> h, i |-> i, exc |-> "none", done |-> TRUE]
    ELSE LET c == check_child_invariance(h, mx, parent_i) IN
         IF c \in {"TypeError", "IndexError"}
         THEN [heap |-> h, i |-> i, exc |-> c, done |-> TRUE]
         ELSE IF c = "True"
              THEN [heap |-> h, i |-> i, exc |-> "none", done |-> TRUE]
         ELSE [heap |-> swap(h, parent_i, i), i |-> parent_i,
               exc |-> "none", done |-> FALSE]

\* the same for _heapify_down
down_step(h, mx, i) ==
    LET c == check_child_invariance(h, mx, i) IN
    IF c \in {"TypeError", "IndexError"}
    THEN [heap |-> h, i |-> i, exc |-> c, done |-> TRUE]
    ELSE IF c = "True" THEN [heap |-> h, i |-> i, exc |-> "none", done |-> TRUE]
    ELSE LET left_i  == (i * 2) + 1
             right_i == (i * 2) + 2
         IN  IF left_i >= size(h) \/ right_i >= size(h)
             THEN [heap |-> h, i |-> i, exc |-> "IndexError", done |-> TRUE]
             ELSE LET cmp == IF mx THEN ge(At(h, left_i), At(h, right_i))
                                   ELSE le(At(h, left_i), At(h, right_i))
                  IN  IF cmp = "E"
                      THEN [heap |-> h, i |-> i, exc |-> "TypeError",
                            done |-> TRUE]
                      ELSE IF cmp = "T"
                           THEN [heap |-> swap(h, left_i, i), i |-> left_i,
                                 exc |-> "none", done |-> FALSE]
                           ELSE [heap |-> swap(h, right_i, i), i |-> right_i,
                                 exc |-> "none", done |-> FALSE]

\* a call _heapify_up(i) or _heapify_down(i) on the list h begins
SiftCall(name, h, i) ==
    /\ heap = h
    /\ max_heap \in BOOLEAN
    /\ type = "int"
    /\ op = name
    /\ arg = <<i>>
    /\ ret = NoneV
    /\ exc = "none"
    /\ old = h
    /\ k = 0
    /\ j = 0
    /\ pc = "entry"
    /\ cur = i

\* the bounds test that opens both methods
SiftEnter ==
    /\ pc = "entry"
    /\ IF cur < 0 \/ cur >= size(heap)
       THEN exc' = "IndexError" /\ pc' = "done"
       ELSE exc' = exc /\ pc' = "loop"
    /\ UNCHANGED <<heap, max_heap, type, op, arg, ret, old, k, j, cur>>

SiftStep(name, s) ==
    /\ pc = "loop"
    /\ op = name
    /\ heap' = s.heap
    /\ cur' = s.i
    /\ exc' = s.exc
    /\ pc' = IF s.done THEN "done" ELSE "loop"
    /\ UNCHANGED <<max_heap, type, op, arg, ret, old, k, j>>

HeapifyUpStep == SiftStep("_heapify_up", up_step(heap, max_heap, cur))

HeapifyDownStep == SiftStep("_heapify_down", down_step(heap, max_heap, cur))

----------------------------------------------------------------------------
(* Specifications *)

\* Typed specification: arguments of every kind, valid or not
Init == Construct({"None", "int", "str"})

Next ==
    \/ \E elem \in TypedValues : Len(heap) < MaxLenT /\ Add(elem) /\ NoTally
    \/ \E elem \in TypedValues : Remove(elem) /\ NoTally
    \/ Poll /\ NoTally
    \/ \E new_root \in TypedValues : Replace(new_root) /\ NoTally
    \/ \E old_elem \in TypedValues : \E new_elem \in TypedValues :
           Update(old_elem, new_elem) /\ NoTally
    \/ Clear /\ NoTally
    \/ \E elements \in Batches(BatchValues) : \E is_list \in BOOLEAN :
           /\ Len(heap) + Len(elements) <= MaxLenT
           /\ is_list \/ Len(elements) <= 1
           /\ BuildHeap(elements, is_list)
           /\ NoTally

Spec == Init /\ [][Next]_vars

\* Numeric specification: a heap of int driven by add, poll, remove, replace
\* and update, every argument an int
InitNum == Construct({"None", "int"})

NextNum ==
    \/ \E elem \in IntValues : Len(heap) < MaxLen /\ Add(elem) /\ NoTally
    \/ \E elem \in IntValues : Remove(elem) /\ NoTally
    \/ Poll /\ NoTally
    \/ \E new_root \in IntValues : Replace(new_root) /\ NoTally
    \/ \E old_elem \in IntValues : \E new_elem \in IntValues :
           Update(old_elem, new_elem) /\ NoTally

SpecNum == InitNum /\ [][NextNum]_vars

\* Drain specification: a fresh heap of int, adds only, then polls only, as
\* many polls as adds returned; a poll that raises ends the run
NextDrain ==
    \/ \E elem \in IntValues :
           /\ op \in {"init", "add"}
           /\ Len(heap) < MaxLen
           /\ Add(elem)
           /\ Tally
    \/ /\ op \in {"add", "poll"}
       /\ exc = "none"
       /\ j < k
       /\ Poll
       /\ Tally

SpecDrain == InitNum /\ [][NextDrain]_vars

\* Size specification: add, poll and remove interleaved, the removals only
\* on a non-empty heap, with the successful calls tallied
NextSize ==
    \/ \E elem \in IntValues : k < MaxAdds /\ Add(elem) /\ Tally
    \/ ~is_empty(heap) /\ Poll /\ Tally
    \/ \E elem \in IntValues : ~is_empty(heap) /\ Remove(elem) /\ Tally

SpecSize == InitNum /\ [][NextSize]_vars

\* Conservation specification: add, poll and remove only, every argument an
\* int
NextBag ==
    \/ \E elem \in IntValues : Len(heap) < MaxLen /\ Add(elem) /\ NoTally
    \/ Poll /\ NoTally
    \/ \E elem \in IntValues : Remove(elem) /\ NoTally

SpecBag == InitNum /\ [][NextBag]_vars

\* Accessor specification: a heap of int grown by add and read through
\* peek, parent, left_child, right_child and children at every index from
\* one before the first to one after the longest heap
Indices == (0 - 1)..(MaxLenS + 1)

NextRead ==
    \/ \E elem \in IntValues : Len(heap) < MaxLenS /\ Add(elem) /\ NoTally
    \/ Peek /\ NoTally
    \/ \E i \in Indices : Parent(i) /\ NoTally
    \/ \E i \in Indices : LeftChild(i) /\ NoTally
    \/ \E i \in Indices : RightChild(i) /\ NoTally
    \/ \E i \in Indices : Children(i) /\ NoTally

SpecRead == InitNum /\ [][NextRead]_vars

\* Peek specification: a fresh heap of int, adds only, then one peek, then
\* one poll
NextPeek ==
    \/ \E elem \in IntValues :
           /\ op \in {"init", "add"}
           /\ Len(heap) < MaxLenS
           /\ Add(elem)
           /\ NoTally
    \/ op = "add" /\ Peek /\ NoTally
    \/ op = "peek" /\ Poll /\ NoTally

SpecPeek == InitNum /\ [][NextPeek]_vars

\* Bulk-build specification: a heap of int or str, empty or populated by
\* add and replace, handed lists that pass validation and lists that do not
NextBuild ==
    \/ \E elem \in IntValues : Len(heap) < MaxLenS /\ Add(elem) /\ NoTally
    \/ \E new_root \in IntValues : Replace(new_root) /\ NoTally
    \/ \E elements \in Batches(BatchValues) : \E is_list \in BOOLEAN :
           /\ Len(heap) + Len(elements) <= MaxLenS
           /\ is_list \/ Len(elements) <= 1
           /\ BuildHeap(elements, is_list)
           /\ NoTally

SpecBuild == InitNum /\ [][NextBuild]_vars

\* Sift specification: _heapify_up(i) and _heapify_down(i) run one loop
\* iteration at a time on every list of ints of 1 to MaxLenS elements,
\* heap-ordered or not, from every index between -1 and the size; a call
\* that began runs on until it returns or raises
Arrays == UNION {[1..n -> IntValues] : n \in 1..MaxLenS}

InitSift ==
    \E name \in {"_heapify_up", "_heapify_down"} : \E h \in Arrays :
        \E i \in (0 - 1)..Len(h) : SiftCall(name, h, i)

NextSift ==
    \/ SiftEnter
    \/ HeapifyUpStep
    \/ HeapifyDownStep

SpecSift == InitSift /\ [][NextSift]_vars /\ WF_vars(NextSift)

----------------------------------------------------------------------------
(* Properties *)

\* the heap-order invariant of a sequence: no element is strictly dominated
\* by a child, every comparison being defined
HeapOrder(h, mx) ==
    \A i \in 0..(Len(h) - 1) : \A c \in {2 * i + 1, 2 * i + 2} :
        c < Len(h) => IF mx THEN ge(At(h, i), At(h, c)) = "T"
                            ELSE le(At(h, i), At(h, c)) = "T"

\* the admission rule in the words of the specification: with no category
\* fixed yet a value of a supported category, otherwise a value of exactly
\* the fixed category
Admitted(t, x) ==
    IF t = "None" THEN typeof(x) \in {"int", "float", "complex", "str"}
    ELSE typeof(x) = t

\* occurrences of x in h
Count(h, x) == Cardinality({n \in 1..Len(h) : h[n] = x})

\* C1: after every call of the numeric specification the element array
\* satisfies the heap-order invariant.
C1_HeapOrderAfterEveryCall == HeapOrder(heap, max_heap)

\* C2: in a run of N adds into a fresh heap followed by N polls, every poll
\* returns normally the most extreme element the heap held, takes exactly
\* that one occurrence out of the array, and returns nothing more extreme
\* than the poll before it (non-increasing for max, non-decreasing for min).
C2_DrainIsSorted ==
    [][op' = "poll" =>
          /\ exc' = "none"
          /\ ret' # NoneV
          /\ \A x \in IntValues :
                Count(heap', x) = Count(heap, x) - (IF x = ret' THEN 1 ELSE 0)
          /\ op = "poll" =>
                (IF max_heap THEN ret'.v <= ret.v ELSE ret'.v >= ret.v)]_vars

\* C3: add of a valid value to a heap-ordered array returns normally, leaves
\* one element more and a heap-ordered array.
C3_AddKeepsHeapOrder ==
    [][(op' = "add" /\ HeapOrder(heap, max_heap)
                    /\ Admitted(type, arg'[1])) =>
          /\ exc' = "none"
          /\ Len(heap') = Len(heap) + 1
          /\ HeapOrder(heap', max_heap)]_vars

\* C3 witness: an add into a heap-ordered array of at least three elements,
\* one of them equal to the new value, moved the new value up from the
\* index it was appended at.
C3_Witness ==
    /\ op = "add" /\ exc = "none"
    /\ HeapOrder(old, max_heap)
    /\ Len(old) >= 3
    /\ Len(heap) = Len(old) + 1
    /\ contains(old, arg[1])
    /\ heap # Append(old, arg[1])
    /\ HeapOrder(heap, max_heap)

\* C4: poll on a heap of exactly one element returns that element without
\* raising and leaves the heap empty.
C4_PollSingleton ==
    (op = "poll" /\ Len(old) = 1) =>
        (exc = "none" /\ ret = At(old, 0) /\ heap = <<>>)

\* C5: whenever remove of a contained value returns from a heap-ordered
\* array, it returns the value and the remaining elements are heap-ordered.
C5_RemoveKeepsHeapOrder ==
    (op = "remove" /\ exc = "none" /\ HeapOrder(old, max_heap)
                   /\ contains(old, arg[1])) =>
        (ret = arg[1] /\ HeapOrder(heap, max_heap))

\* C6: remove of a value whose first occurrence is the last index returns
\* the value without raising and leaves the array without its last slot.
C6_RemoveLast ==
    (op = "remove" /\ contains(old, arg[1])
                   /\ index(old, arg[1]) = Len(old) - 1) =>
        (exc = "none" /\ ret = arg[1] /\ heap = pop(old))

\* C7: size() equals the successful adds minus the successful poll/remove
\* calls.
C7_SizeIsAddsMinusRemovals == size(heap) = k - j

\* C8: add of a value that fails type validation raises TypeError and leaves
\* the array and the type tag as they were.
C8_RejectedAddChangesNothing ==
    [][(op' = "add" /\ ~Admitted(type, arg'[1])) =>
          (exc' = "TypeError" /\ heap' = heap /\ type' = type)]_vars

\* C8 witness: a non-empty heap of a fixed type rejected a value of another
\* supported type.
C8_Witness ==
    /\ op = "add" /\ exc = "TypeError"
    /\ type \in COMPARABLE_TYPES
    /\ typeof(arg[1]) \in COMPARABLE_TYPES
    /\ typeof(arg[1]) # type
    /\ Len(heap) >= 1
    /\ heap = old

\* the batch has an element that fails the category check, or mixes
\* categories among its own elements
BadBatch(t, elements) ==
    \/ \E n \in 1..Len(elements) : ~Admitted(t, elements[n])
    \/ \E m, n \in 1..Len(elements) : typeof(elements[m]) # typeof(elements[n])

\* C9: build_heap of a list with an invalid element or of mixed categories
\* raises TypeError and leaves the array and the type tag as they were.
C9_BuildHeapAllOrNothing ==
    [][(op' = "build_heap" /\ BadBatch(type, arg')) =>
          (exc' = "TypeError" /\ heap' = heap /\ type' = type)]_vars

\* C9 witness: a heap with no type yet rejected a list whose first element
\* is valid and whose last element is of another supported category.
C9_Witness ==
    /\ op = "build_heap" /\ exc = "TypeError"
    /\ type = "None"
    /\ Len(arg) >= 2
    /\ Admitted(type, arg[1])
    /\ Admitted(type, arg[Len(arg)])
    /\ typeof(arg[Len(arg)]) # typeof(arg[1])
    /\ heap = old

\* C10: poll and replace on an empty heap and remove of an absent value
\* return None, update of an absent value returns False; none raises and
\* the array is the same after as before.
C10_AbsentTargetIsNoOp ==
    [][/\ (op' \in {"poll", "replace"} /\ is_empty(heap)) =>
              (ret' = NoneV /\ exc' = "none" /\ heap' = heap)
       /\ (op' = "remove" /\ ~contains(heap, arg'[1])) =>
              (ret' = NoneV /\ exc' = "none" /\ heap' = heap)
       /\ (op' = "update" /\ ~contains(heap, arg'[1])) =>
              (ret' = FalseV /\ exc' = "none" /\ heap' = heap)]_vars

\* C10 witness: remove of a value absent from a heap of two or more
\* elements returned None and left the array as it was.
C10_Witness ==
    /\ op = "remove" /\ exc = "none" /\ ret = NoneV
    /\ Len(old) >= 2
    /\ ~contains(old, arg[1])
    /\ heap = old

\* C11: update of a contained value in a heap-ordered array returns True
\* without raising and leaves the array heap-ordered.
C11_UpdateKeepsHeapOrder ==
    (op = "update" /\ HeapOrder(old, max_heap) /\ contains(old, arg[1])) =>
        (exc = "none" /\ ret = TrueV /\ HeapOrder(heap, max_heap))

\* C12: once the type tag is fixed, every element of the array is of that
\* type.
C12_TypeHomogeneity ==
    type # "None" =>
        \A n \in 1..Len(heap) : typeof(heap[n]) = type

\* C18: replace on a non-empty heap-ordered array returns the element that
\* was at the root, keeps the size and leaves the array heap-ordered.
C18_ReplaceKeepsHeapOrder ==
    (op = "replace" /\ ~is_empty(old) /\ HeapOrder(old, max_heap)) =>
        /\ exc = "none"
        /\ ret = At(old, 0)
        /\ size(heap) = size(old)
        /\ HeapOrder(heap, max_heap)

\* C13: clear leaves the array empty and the ordering and the type tag as
\* they were, and the add that follows a clear still rejects a value whose
\* type differs from the retained type tag.
C13_ClearKeepsOrderingAndType ==
    [][/\ op' = "clear" =>
              (heap' = <<>> /\ type' = type /\ max_heap' = max_heap)
       /\ (op = "clear" /\ op' = "add" /\ type # "None"
                        /\ typeof(arg'[1]) # type) =>
              (exc' = "TypeError" /\ heap' = <<>> /\ type' = type)]_vars

\* C13 witness: clear emptied a non-empty heap whose type tag is fixed.
C13_Witness ==
    /\ op = "clear" /\ exc = "none"
    /\ Len(old) >= 1
    /\ type \in COMPARABLE_TYPES
    /\ heap = <<>>

\* C14: peek leaves the heap as it is and returns the root of a non-empty
\* heap, None for the empty heap, without raising.
C14_PeekReturnsRootOrNone ==
    op = "peek" =>
        /\ exc = "none"
        /\ heap = old
        /\ ret = IF is_empty(old) THEN NoneV ELSE At(old, 0)

\* C15: parent, left_child, right_child and children raise IndexError at
\* every index outside [0, size), the empty heap included; inside, parent(0)
\* is None, parent(i) is the element at (i-1) div 2 and a child at an index
\* >= size is None.
C15_AccessorBounds ==
    op \in {"parent", "left_child", "right_child", "children"} =>
        LET i == arg[1]
            l == IF 2 * i + 1 < Len(old) THEN At(old, 2 * i + 1) ELSE NoneV
            r == IF 2 * i + 2 < Len(old) THEN At(old, 2 * i + 2) ELSE NoneV
        IN  IF i < 0 \/ i >= Len(old) THEN exc = "IndexError"
            ELSE /\ exc = "none"
                 /\ op = "parent" =>
                       ret = IF i = 0 THEN NoneV ELSE At(old, (i - 1) \div 2)
                 /\ op = "left_child" => ret = l
                 /\ op = "right_child" => ret = r
                 /\ op = "children" => ret = [k |-> "tuple", v |-> <<l, r>>]

\* x is an element of h that no element of h is more extreme than: the
\* maximum of h in a max-heap, the minimum in a min-heap
IsExtreme(x, h, mx) ==
    /\ \E n \in 1..Len(h) : h[n] = x
    /\ \A n \in 1..Len(h) : IF mx THEN x.v >= h[n].v ELSE x.v <= h[n].v

\* C16: after adds on a fresh heap peek returns the maximum (minimum) of the
\* inserted values; the poll that follows returns that same value without
\* raising, takes one occurrence of it out of the array and leaves at the
\* root the maximum (minimum) of the remaining values.
C16_PeekThenPoll ==
    [][/\ op' = "peek" =>
              (exc' = "none" /\ IsExtreme(ret', heap, max_heap))
       /\ (op = "peek" /\ op' = "poll") =>
              /\ exc' = "none"
              /\ ret' = ret
              /\ \A x \in IntValues :
                    Count(heap', x) =
                        Count(heap, x) - (IF x = ret' THEN 1 ELSE 0)
              /\ heap' # <<>> => IsExtreme(At(heap', 0), heap', max_heap)]_vars

\* the caller's loop "for elem in elements: add(elem)": the fields after
\* the adds in input order, the first add that raises ending the loop
RECURSIVE AddsInOrder(_, _, _, _)
AddsInOrder(h, t, mx, elements) ==
    IF elements = <<>> THEN [heap |-> h, type |-> t, exc |-> "none"]
    ELSE LET a == add(h, t, mx, elements[1])
         IN  IF a.exc # "none"
             THEN [heap |-> a.heap, type |-> a.type, exc |-> a.exc]
             ELSE AddsInOrder(a.heap, a.type, mx,
                              SubSeq(elements, 2, Len(elements)))

\* C17: build_heap of a list that passes validation, on an empty or a
\* populated heap, ends with the array, the type tag and the outcome of one
\* add per element in input order; the elements already in the heap stay.
C17_BuildHeapIsAddsInOrder ==
    [][(op' = "build_heap" /\ ~BadBatch(type, arg')) =>
          LET s == AddsInOrder(heap, type, max_heap, arg')
          IN  /\ heap' = s.heap
              /\ type' = s.type
              /\ exc' = s.exc]_vars

\* C17 witness: build_heap of two elements on a populated heap returned and
\* the array is not the old array followed by the list: an element was
\* sifted up.
C17_Witness ==
    /\ op = "build_heap" /\ exc = "none"
    /\ Len(old) >= 1
    /\ Len(arg) >= 2
    /\ Len(heap) = Len(old) + Len(arg)
    /\ heap # old \o arg

\* the sift-down walk as specified: while the element at i is strictly
\* dominated by an existing child, swap it with the more extreme existing
\* child (the left one on a tie, the left one when it is the only child) and
\* go on from that child; only indices below the size are read
RECURSIVE RefSiftDown(_, _, _)
RefSiftDown(h, mx, i) ==
    LET l == 2 * i + 1
        r == 2 * i + 2
        dominated(c) == /\ c < Len(h)
                        /\ IF mx THEN At(h, i).v < At(h, c).v
                                 ELSE At(h, i).v > At(h, c).v
    IN  IF ~(dominated(l) \/ dominated(r)) THEN h
        ELSE LET c == IF r >= Len(h) THEN l
                      ELSE IF mx THEN (IF At(h, l).v >= At(h, r).v THEN l ELSE r)
                                 ELSE (IF At(h, l).v <= At(h, r).v THEN l ELSE r)
             IN  RefSiftDown(swap(h, c, i), mx, c)

\* C19: the sift-down that replace runs from the root reads no index outside
\* [0, size), so it raises nothing, and it moves the new root down as
\* specified, a node with only a left child being swapped with that child.
C19_SiftDownStaysInBounds ==
    (op = "replace" /\ ~is_empty(old)) =>
        /\ exc = "none"
        /\ heap = RefSiftDown([old EXCEPT ![1] = arg[1]], max_heap, 0)

\* C20: every run of _heapify_up and _heapify_down ends, returning or
\* raising, on every list content: from one loop iteration to the next the
\* index of the walk up strictly decreases and stays >= 0, the index of the
\* walk down strictly increases and stays below the size; and the run ends
\* with the list and the exception that the methods' calls of the loop get.
C20_SiftTerminates ==
    /\ [][(pc = "loop" /\ pc' = "loop") =>
             IF op = "_heapify_up" THEN cur' < cur /\ cur' >= 0
             ELSE cur' > cur /\ cur' < size(heap')]_vars
    /\ [](pc = "done" =>
             LET s == IF op = "_heapify_up"
                      THEN heapify_up(old, max_heap, arg[1])
                      ELSE heapify_down(old, max_heap, arg[1])
             IN  heap = s.heap /\ exc = s.exc)
    /\ <>(pc = "done")

\* C20 witness: a walk up that began at index 3 of a list that is not
\* heap-ordered ended at the root after two swaps.
C20_Witness ==
    /\ pc = "done" /\ op = "_heapify_up" /\ exc = "none"
    /\ ~HeapOrder(old, max_heap)
    /\ arg[1] = 3
    /\ cur = 0
    /\ heap # old

\* C21: the type tag changes at most once. Once set, at construction or by
\* an add, no call changes it, the poll and remove calls that empty the heap
\* included. While unset it changes only in an add or a build_heap whose
\* first value is admitted, to the category of that value, which is then in
\* the array; a rejected add, a rejected build_heap and every other call
\* leave it unset.
C21_TypeSetAtMostOnce ==
    [][/\ type # "None" => type' = type
       /\ (type = "None" /\ type' # "None") =>
              /\ op' \in {"add", "build_heap"}
              /\ Len(arg') >= 1
              /\ Admitted("None", arg'[1])
              /\ type' = typeof(arg'[1])
              /\ heap = <<>> /\ contains(heap', arg'[1])
       /\ (type = "None" /\ op' = "add" /\ Admitted("None", arg'[1])) =>
              type' = typeof(arg'[1])
       /\ (type = "None" /\ op' = "add" /\ ~Admitted("None", arg'[1])) =>
              type' = "None"
       /\ (type = "None" /\ op' = "build_heap" /\ BadBatch("None", arg')) =>
              type' = "None"
       /\ (type = "None" /\ op' = "build_heap" /\ arg' # <<>>
                         /\ ~BadBatch("None", arg')) =>
              type' = typeof(arg'[1])]_vars

\* C21 witness: a poll or a remove took the only element out of a heap
\* whose type tag is fixed; the heap is empty and the tag is still the
\* category of the element that left.
C21_Witness ==
    /\ op \in {"poll", "remove"}
    /\ Len(old) = 1 /\ heap = <<>>
    /\ type \in COMPARABLE_TYPES
    /\ type = typeof(At(old, 0))

\* C22: element conservation. A call that returns normally leaves, after
\* add(v), the elements it found plus one v; after poll() on a non-empty
\* heap, the elements it found minus one occurrence of the value returned;
\* after remove(v) of a contained v, the elements it found minus exactly one
\* occurrence of v.
C22_ElementConservation ==
    exc = "none" =>
        /\ op = "add" =>
              \A x \in IntValues :
                  Count(heap, x) = Count(old, x) + (IF x = arg[1] THEN 1 ELSE 0)
        /\ (op = "poll" /\ ~is_empty(old)) =>
              /\ contains(old, ret)
              /\ \A x \in IntValues :
                    Count(heap, x) = Count(old, x) - (IF x = ret THEN 1 ELSE 0)
        /\ (op = "remove" /\ contains(old, arg[1])) =>
              /\ ret = arg[1]
              /\ \A x \in IntValues :
                    Count(heap, x) =
                        Count(old, x) - (IF x = arg[1] THEN 1 ELSE 0)

\* C22 witness: remove of a value held twice or more returned normally, the
\* walk down moved elements, and the other occurrences are still there.
C22_Witness ==
    /\ op = "remove" /\ exc = "none" /\ ret = arg[1]
    /\ Count(old, arg[1]) >= 2
    /\ Count(heap, arg[1]) = Count(old, arg[1]) - 1
    /\ Len(old) >= 4
    /\ Len(heap) = Len(old) - 1
    /\ \E n \in 1..Len(heap) : heap[n] # old[n] /\ n # index(old, arg[1]) + 1

\* C23: a poll, a replace or an update (and an add) that is called on a
\* heap-ordered array and returns normally leaves a heap-ordered array; of
\* the calls of the numeric specification only remove may return normally
\* from a heap-ordered array into one that is not.
C23_OnlyRemoveBreaksHeapOrder ==
    (op \in {"add", "poll", "replace", "update"} /\ exc = "none"
         /\ HeapOrder(old, max_heap)) =>
        HeapOrder(heap, max_heap)

\* C23 witness: an update of a contained value in a heap-ordered array of
\* five or more elements returned True after moving elements, and the array
\* is heap-ordered.
C23_Witness ==
    /\ op = "update" /\ exc = "none" /\ ret = TrueV
    /\ HeapOrder(old, max_heap)
    /\ Len(old) >= 5
    /\ contains(old, arg[1])
    /\ heap # [old EXCEPT ![index(old, arg[1]) + 1] = arg[2]]
    /\ HeapOrder(heap, max_heap)

====
